---- MODULE Spec2Model ----
(***************************************************************************)
(* Model of src/main.py: one session of download_repo.  The session asks   *)
(* the server for the size of the repository (HEAD), prepares TEMP_DIR,    *)
(* dispatches one download_chunk task per byte range, joins them with      *)
(* asyncio.gather and then hashes every entry of TEMP_DIR.                 *)
(*                                                                         *)
(* The event loop is cooperative: a coroutine runs without interruption    *)
(* from one await that really suspends to the next, so every action below  *)
(* is one such run of download_repo or of one download_chunk task.         *)
(***************************************************************************)
EXTENDS Integers, Sequences, FiniteSets, TLC

\* ---------------------------------------------------------------- bounds
MaxSize == 2        \* Content-Length values 0..MaxSize (and ScenarioSize)
MaxBlocks == 3      \* NUM_OF_BLOCKS ranges over 1..MaxBlocks
MaxIncrements == 2  \* the server delivers at most MaxIncrements body
                    \* increments in a session, over all responses

\* the size used by test_successful_download_and_hash
ScenarioSize == 3000

\* Python's None, as returned by get_content_length on a connection error.
\* Every size the model parses is >= 0, so -1 is free to stand for it.
None == -1

\* HTTP status codes the server may answer with
HTTP_OK == 200
HTTP_INTERNAL_SERVER_ERROR == 500
Statuses == {HTTP_OK, HTTP_INTERNAL_SERVER_ERROR}

VARIABLES
    NUM_OF_BLOCKS,   \* constants.NUM_OF_BLOCKS, fixed for the session
    pc,              \* where download_repo is
    outcome,         \* "running", "Done", "Failed" or "Raised"
    stages,          \* the stages entered so far, in order
    reported,        \* stage -> "none" | "ok" | "fail": what each stage reported
    status,          \* the HTTP status the server answers with in this session
    head,            \* what the server answered to the HEAD request
    content_length,  \* download_repo's local content_length
    dirExisted,      \* whether TEMP_DIR existed when the session started
    dirExists,       \* whether TEMP_DIR exists
    files,           \* the entries of TEMP_DIR: name -> content
    tasks,           \* the download_chunk tasks created by download_chunks
    listing,         \* entries of os.listdir(TEMP_DIR) not yet visited
    hashed,          \* name -> digest computed by download_and_hash_file
    infos,           \* lines passed to logger.info
    errors           \* messages passed to logger.error

vars == <<NUM_OF_BLOCKS, pc, outcome, stages, reported, status, head,
          content_length,
          dirExisted, dirExists, files, tasks, listing, hashed, infos, errors>>

StageNames == <<"DiscoverSize", "PrepareDestination", "Transfer", "Digest">>

\* ------------------------------------------------------------ file system
\* "temp_{}_{}".format(start, end): the two numbers are separated by "_",
\* which occurs in neither, so a name is determined by and determines the
\* pair; the model keeps the pair.
FileName(start, end) == <<start, end>>

\* a file left in TEMP_DIR by an earlier run
StaleName == FileName(0, 0)
StaleContent == << <<0, 0>> >>
Hole == <<-1, -1>>

\* file.write(chunk) through a handle whose position is pos
RECURSIVE Pad(_, _)
Pad(content, len) ==
    IF Len(content) >= len THEN content ELSE Pad(Append(content, Hole), len)

WriteAt(content, pos, chunk) ==
    IF pos < Len(content)
    THEN [content EXCEPT ![pos + 1] = chunk]
    ELSE Append(Pad(content, pos), chunk)

EmptyDir == [n \in {} |-> <<>>]

\* open(path, "wb"): create the entry or truncate it
OpenWb(fs, name) ==
    [n \in DOMAIN fs \cup {name} |-> IF n = name THEN <<>> ELSE fs[n]]

\* ------------------------------------------------------ get_content_length
NoHeader == [present |-> FALSE, parses |-> FALSE, value |-> 0]
Garbage == [present |-> TRUE, parses |-> FALSE, value |-> 0]
Sizes == (0..MaxSize) \cup {ScenarioSize}
Headers ==
    {NoHeader, Garbage} \cup
    {[present |-> TRUE, parses |-> TRUE, value |-> n] : n \in Sizes}

\* kind "response" is a response of any status; the code reads only its
\* Content-Length header
NoAnswer == [kind |-> "none", header |-> NoHeader]
HeadAnswers ==
    {[kind |-> k, header |-> NoHeader] :
        k \in {"ClientConnectorError", "OtherError"}} \cup
    {[kind |-> "response", header |-> h] : h \in Headers}

\* get_content_length with `return 0` in its except clause
get_content_length_zero(ans) ==
    IF ans.kind = "ClientConnectorError"
    THEN [raised |-> FALSE, value |-> 0]
    ELSE IF ans.kind = "OtherError"
    THEN [raised |-> TRUE, value |-> None]
    ELSE IF ~ans.header.present
    THEN [raised |-> FALSE, value |-> 0]
    ELSE IF ~ans.header.parses
    THEN [raised |-> TRUE, value |-> None]
    ELSE [raised |-> FALSE, value |-> ans.header.value]

\* lines 14-19.  Returns [raised, value]: the exception escapes (only
\* ClientConnectorError is caught), or value is returned; the except clause
\* falls off the end of the function, which returns None
get_content_length(ans) ==
    IF ans.kind = "ClientConnectorError"
    THEN [raised |-> FALSE, value |-> None]
    ELSE IF ans.kind = "OtherError"
    THEN [raised |-> TRUE, value |-> None]
    ELSE IF ~ans.header.present
    THEN [raised |-> FALSE, value |-> 0]
    ELSE IF ~ans.header.parses
    THEN [raised |-> TRUE, value |-> None]
    ELSE [raised |-> FALSE, value |-> ans.header.value]

\* ------------------------------------------------------------ download_repo
\* line 73: `if content_length is None: return`
SizeKnown(length) == length # None

\* a gate that no longer looks at the stage's result
ProceedsAlways(result) == TRUE

\* lines 76, 79: `if not await <stage>: return`
Proceeds(result) == result

Enter(stage) == stages' = Append(stages, stage)
Report(stage, r) == reported' = [reported EXCEPT ![stage] = r]

Init ==
    /\ NUM_OF_BLOCKS \in 1..MaxBlocks
    /\ pc = "get_content_length"
    /\ outcome = "running"
    /\ stages = <<"DiscoverSize">>
    /\ reported = [s \in {StageNames[k] : k \in 1..4} |-> "none"]
    /\ status \in Statuses
    /\ head = NoAnswer
    /\ content_length = None
    /\ dirExisted \in BOOLEAN
    /\ dirExists = dirExisted
    /\ files \in IF dirExisted
                 THEN {EmptyDir, [n \in {StaleName} |-> StaleContent]}
                 ELSE {EmptyDir}
    /\ tasks = <<>>
    /\ listing = {}
    /\ hashed = {}
    /\ infos = {}
    /\ errors = {}

\* lines 72-74: await get_content_length; return if it is None
GetContentLength(ans) ==
    /\ pc = "get_content_length"
    /\ head' = ans
    /\ LET r == get_content_length(ans) IN
        IF r.raised
        THEN /\ pc' = "returned"
             /\ outcome' = "Raised"
             /\ Report("DiscoverSize", "fail")
             /\ UNCHANGED <<content_length, stages, errors>>
        ELSE /\ content_length' = r.value
             /\ errors' = IF ans.kind = "ClientConnectorError"
                          THEN errors \cup {"Failed to connect to server"}
                          ELSE errors
             /\ IF SizeKnown(r.value)
                THEN /\ pc' = "create_temp_dir"
                     /\ Enter("PrepareDestination")
                     /\ Report("DiscoverSize", "ok")
                     /\ UNCHANGED outcome
                ELSE /\ pc' = "returned"
                     /\ outcome' = "Failed"
                     /\ Report("DiscoverSize", "fail")
                     /\ UNCHANGED stages
    /\ UNCHANGED <<NUM_OF_BLOCKS, status, dirExisted, dirExists, files, tasks,
                   listing, hashed, infos>>

\* lines 22-30 and 76-77; makedirsOk: whether os.makedirs succeeds
CreateTempDir(makedirsOk) ==
    /\ pc = "create_temp_dir"
    /\ LET result == dirExists \/ makedirsOk IN
        /\ dirExists' = result
        /\ errors' = IF result THEN errors
                     ELSE errors \cup {"Failed to create directory"}
        /\ Report("PrepareDestination", IF result THEN "ok" ELSE "fail")
        /\ IF Proceeds(result)
           THEN /\ pc' = "download_chunks"
                /\ Enter("Transfer")
                /\ UNCHANGED outcome
           ELSE /\ pc' = "returned"
                /\ outcome' = "Failed"
                /\ UNCHANGED stages
    /\ UNCHANGED <<NUM_OF_BLOCKS, status, head, content_length, dirExisted,
                   files, tasks, listing, hashed, infos>>

\* ---------------------------------------------------------- download_chunks
\* lines 35-42: the byte range of segment i (0-based) of a resource of
\* `length` bytes cut into n blocks
ChunkSize(length, n) == length \div n
Start(i, length, n) == i * ChunkSize(length, n)
End(i, length, n) ==
    IF i = 2 THEN length ELSE Start(i, length, n) + ChunkSize(length, n) - 1

\* line 43: asyncio.create_task(download_chunk(session, start, end, ...))
NewTask(start, end) ==
    [start |-> start, end |-> end, st |-> "get", pos |-> 0, answered |-> FALSE,
     failed |-> FALSE, raised |-> FALSE, gets |-> 0]

\* lines 36-44: the loop creates every task before the first await
DownloadChunksDispatch ==
    /\ pc = "download_chunks"
    /\ tasks' = [k \in 1..NUM_OF_BLOCKS |->
                    NewTask(Start(k - 1, content_length, NUM_OF_BLOCKS),
                            End(k - 1, content_length, NUM_OF_BLOCKS))]
    /\ pc' = "gather"
    /\ UNCHANGED <<NUM_OF_BLOCKS, status, outcome, stages, reported, head,
                   content_length, dirExisted, dirExists, files, listing,
                   hashed, infos, errors>>

\* ----------------------------------------------------------- download_chunk
\* an except clause that sends the task back to its request
ExceptClauseRetry(t) == [t EXCEPT !.st = "get", !.failed = TRUE]

\* an except clause that logs and re-raises
ExceptClauseReraise(t) ==
    [t EXCEPT !.st = "done", !.failed = TRUE, !.raised = TRUE]

\* lines 97-99: the except clause logs and returns; nothing is re-raised
ExceptClause(t) == [t EXCEPT !.st = "done", !.failed = TRUE, !.raised = FALSE]

\* a fetch that opens its file before it sends the request
FilesAfterGetOpenFirst(fs, name, connected) == OpenWb(fs, name)

\* lines 90-94: open() is inside `async with session.get(...)`, so the file
\* is opened only once the response has arrived
FilesAfterGet(fs, name, connected) ==
    IF connected THEN OpenWb(fs, name) ELSE fs

\* line 90: one GET has been sent for this task
Requested(t) == [t EXCEPT !.gets = @ + 1]

\* lines 88-94: the GET is answered (or fails to connect) and the file is
\* opened; connected = FALSE is a failure before any response
DownloadChunkGet(i, connected) ==
    /\ pc = "gather"
    /\ i \in DOMAIN tasks
    /\ tasks[i].st = "get"
    /\ files' = FilesAfterGet(files, FileName(tasks[i].start, tasks[i].end),
                              connected)
    /\ IF connected
       THEN /\ tasks' = [tasks EXCEPT ![i] =
                            [Requested(@) EXCEPT !.st = "stream",
                                                 !.answered = TRUE]]
            /\ UNCHANGED errors
       ELSE /\ tasks' = [tasks EXCEPT ![i] = ExceptClause(Requested(@))]
            /\ errors' = errors \cup {"Failed to download chunk"}
    /\ UNCHANGED <<NUM_OF_BLOCKS, status, pc, outcome, stages, reported, head,
                   content_length, dirExisted, dirExists, listing, hashed,
                   infos>>

\* the number of body increments delivered so far
RECURSIVE Delivered(_, _)
Delivered(ts, n) == IF n = 0 THEN 0 ELSE ts[n].pos + Delivered(ts, n - 1)

\* lines 95-96: one turn of `async for chunk in iter_chunked(BLOCK_SIZE)`:
\* the next increment arrives and is written, the body ends, or the
\* transport fails in mid-stream
DownloadChunkStream(i, event) ==
    /\ pc = "gather"
    /\ i \in DOMAIN tasks
    /\ tasks[i].st = "stream"
    /\ event = "chunk" => Delivered(tasks, Len(tasks)) < MaxIncrements
    /\ LET name == FileName(tasks[i].start, tasks[i].end) IN
        IF event = "chunk"
        THEN /\ files' = [files EXCEPT ![name] =
                            WriteAt(@, tasks[i].pos, <<i, tasks[i].pos + 1>>)]
             /\ tasks' = [tasks EXCEPT ![i].pos = @ + 1]
             /\ UNCHANGED errors
        ELSE IF event = "eof"
        THEN /\ tasks' = [tasks EXCEPT ![i].st = "done"]
             /\ UNCHANGED <<files, errors>>
        ELSE /\ tasks' = [tasks EXCEPT ![i] = ExceptClause(@)]
             /\ errors' = errors \cup {"Failed to download chunk"}
             /\ UNCHANGED files
    /\ UNCHANGED <<NUM_OF_BLOCKS, status, pc, outcome, stages, reported, head,
                   content_length, dirExisted, dirExists, listing, hashed,
                   infos>>

\* ------------------------------------------------------------------ gather
\* a join that resumes only when a task has raised
GatherResumesOnError(ts) ==
    \E i \in DOMAIN ts : ts[i].st = "done" /\ ts[i].raised

\* a join that resumes on the first task to finish
GatherResumesFirst(ts) == \E i \in DOMAIN ts : ts[i].st = "done"

\* asyncio.gather(*tasks) without return_exceptions: it resumes the awaiting
\* coroutine when every task has finished, or as soon as one task has
\* finished with an exception (which it raises in the awaiting coroutine)
GatherResumes(ts) ==
    \/ \A i \in DOMAIN ts : ts[i].st = "done"
    \/ \E i \in DOMAIN ts : ts[i].st = "done" /\ ts[i].raised

\* lines 46-51: True if gather returned, False if it raised
download_chunks(ts) == ~ \E i \in DOMAIN ts : ts[i].st = "done" /\ ts[i].raised

\* lines 46-51 and 79-82: download_chunks returns, download_repo checks the
\* result and calls compute_file_hashes, which lists TEMP_DIR (line 56)
DownloadChunksGather ==
    /\ pc = "gather"
    /\ GatherResumes(tasks)
    /\ LET result == download_chunks(tasks) IN
        /\ Report("Transfer", IF result THEN "ok" ELSE "fail")
        /\ errors' = IF result THEN errors
                     ELSE errors \cup {"Failed to download repository"}
        /\ IF Proceeds(result)
           THEN /\ pc' = "compute_file_hashes"
                /\ Enter("Digest")
                /\ listing' = DOMAIN files
                /\ UNCHANGED outcome
           ELSE /\ pc' = "returned"
                /\ outcome' = "Failed"
                /\ UNCHANGED <<stages, listing>>
    /\ UNCHANGED <<NUM_OF_BLOCKS, status, head, content_length, dirExisted,
                   dirExists, files, tasks, hashed, infos>>

\* ------------------------------------------------------ compute_file_hashes
\* hashlib.sha256(content).hexdigest(): a digest stands for the content it
\* was computed from
Sha256(content) == <<"sha256", content>>

\* lines 102-107: readable = FALSE is open() or read() raising
download_and_hash_file(fs, name, readable) ==
    IF readable /\ name \in DOMAIN fs
    THEN [raised |-> FALSE, digest |-> Sha256(fs[name])]
    ELSE [raised |-> TRUE, digest |-> Sha256(<<>>)]

\* lines 60-61: "{filename}: {hash_digest}".format(filename, hash_digest).
\* The fields are named and the arguments positional, so str.format looks
\* the names up among no keyword arguments and raises KeyError.
FormatInfo(filename, hash_digest) ==
    [raised |-> TRUE, line |-> <<filename, hash_digest>>]

\* an except clause that logs and lets the loop go on
AbortsNever(raised) == FALSE

\* lines 63-65: the except clause ends the pass with `return False`
Aborts(raised) == raised

\* line 64: the message names the exception that was caught
HashErrors == {"Failed to hash file: OSError", "Failed to hash file: KeyError"}

\* lines 56-65: one turn of the loop over os.listdir(TEMP_DIR)
ComputeFileHashesEntry(name, readable) ==
    /\ pc = "compute_file_hashes"
    /\ name \in listing
    /\ LET h == download_and_hash_file(files, name, readable)
           f == FormatInfo(name, h.digest)
           raised == h.raised \/ f.raised
       IN
        /\ hashed' = IF h.raised THEN hashed
                     ELSE hashed \cup {[name |-> name, digest |-> h.digest]}
        /\ errors' = IF h.raised
                     THEN errors \cup {"Failed to hash file: OSError"}
                     ELSE IF f.raised
                     THEN errors \cup {"Failed to hash file: KeyError"}
                     ELSE errors
        /\ infos' = IF raised THEN infos ELSE infos \cup {f.line}
        /\ IF Aborts(raised)
           THEN /\ Report("Digest", "fail")
                /\ pc' = "returned"
                /\ outcome' = "Failed"
                /\ UNCHANGED listing
           ELSE /\ listing' = listing \ {name}
                /\ UNCHANGED <<pc, outcome, reported>>
    /\ UNCHANGED <<NUM_OF_BLOCKS, status, stages, head, content_length,
                   dirExisted, dirExists, files, tasks>>

\* lines 66 and 82-83: the listing is exhausted
ComputeFileHashesReturn ==
    /\ pc = "compute_file_hashes"
    /\ listing = {}
    /\ Report("Digest", "ok")
    /\ pc' = "returned"
    /\ outcome' = "Done"
    /\ UNCHANGED <<NUM_OF_BLOCKS, status, stages, head, content_length,
                   dirExisted, dirExists, files, tasks, listing, hashed,
                   infos, errors>>

Next ==
    \/ \E ans \in HeadAnswers : GetContentLength(ans)
    \/ \E ok \in BOOLEAN : CreateTempDir(ok)
    \/ DownloadChunksDispatch
    \/ \E i \in 1..MaxBlocks, connected \in BOOLEAN :
          DownloadChunkGet(i, connected)
    \/ \E i \in 1..MaxBlocks, event \in {"chunk", "eof", "error"} :
          DownloadChunkStream(i, event)
    \/ DownloadChunksGather
    \/ \E name \in listing, readable \in BOOLEAN :
          ComputeFileHashesEntry(name, readable)
    \/ ComputeFileHashesReturn

Spec == Init /\ [][Next]_vars

\* The event loop keeps running: while some coroutine can take a step (a
\* request or file operation resolves, a ready coroutine is resumed), a step
\* is eventually taken.
LiveSpec == Spec /\ WF_vars(Next)

\* ================================================================== claims
Entered == {stages[k] : k \in DOMAIN stages}
Failed(i) == tasks[i].failed
Finished(i) == tasks[i].st = "done"
Name(i) == FileName(tasks[i].start, tasks[i].end)
Offsets(i) == tasks[i].start .. tasks[i].end
\* the increments task i has received, in arrival order
Received(i) == [k \in 1..tasks[i].pos |-> <<i, k>>]
Final == NUM_OF_BLOCKS

\* C1: if at least one segment fetch fails, download_chunks reports failure
\* and the digest stage is never entered.
C1_FailedFetchFailsTransfer ==
    (\E i \in DOMAIN tasks : Failed(i)) =>
        /\ reported["Transfer"] # "ok"
        /\ "Digest" \notin Entered
        /\ hashed = {}

\* C2: the digest stage is never active, and no file has been read by it,
\* while a segment fetch is still in flight.
C2_NoDigestWhileFetching ==
    ("Digest" \in Entered \/ pc = "compute_file_hashes" \/ hashed # {}) =>
        \A i \in DOMAIN tasks : Finished(i)

C2_Witness ==
    /\ hashed # {}
    /\ \E i, j \in DOMAIN tasks :
          /\ i # j /\ Name(i) # Name(j)
          /\ tasks[i].pos >= 1 /\ tasks[j].pos >= 1
          /\ [name |-> Name(i), digest |-> Sha256(Received(i))] \in hashed

\* C3: download_chunks returns only after every fetch task has resolved; a
\* failed fetch does not stop a sibling, whose artifact holds the whole body
\* it received when download_chunks returns.
C3_WaitForAll ==
    reported["Transfer"] # "none" =>
        \A i \in DOMAIN tasks :
            /\ Finished(i)
            /\ (~Failed(i) /\ \A j \in DOMAIN tasks : j # i => Name(j) # Name(i))
                  => /\ Name(i) \in DOMAIN files
                     /\ files[Name(i)] = Received(i)

C3_Witness ==
    /\ reported["Transfer"] # "none"
    /\ \E i, j \in DOMAIN tasks :
          /\ Failed(i) /\ tasks[i].answered
          /\ ~Failed(j) /\ tasks[j].pos >= 2
          /\ \A k \in DOMAIN tasks : k # j => Name(k) # Name(j)

\* C4: the stages are entered in the order DiscoverSize, PrepareDestination,
\* Transfer, Digest, each at most once; after a stage has reported failure no
\* later stage is entered, and after create_temp_dir has failed there is no
\* fetch task.
C4_StagesInOrder ==
    /\ Len(stages) <= Len(StageNames)
    /\ \A k \in DOMAIN stages : stages[k] = StageNames[k]
    /\ \A k \in DOMAIN StageNames :
          reported[StageNames[k]] = "fail" => Len(stages) = k
    /\ reported["PrepareDestination"] = "fail" => tasks = <<>>

C4_Witness ==
    /\ reported["PrepareDestination"] = "fail"
    /\ pc = "returned"

\* C5: for a size > 0 the dispatched ranges number NUM_OF_BLOCKS, cover every
\* offset of [0, size) and are pairwise disjoint, but for the extra end
\* offset (= size) of the final segment.
C5_RangesPartition ==
    (tasks # <<>> /\ content_length > 0) =>
        /\ Len(tasks) = NUM_OF_BLOCKS
        /\ \A o \in 0..(content_length - 1) :
              \E i \in DOMAIN tasks : o \in Offsets(i)
        /\ \A i, j \in DOMAIN tasks :
              i # j => (Offsets(i) \cap Offsets(j)) \ {content_length} = {}
        /\ \A i \in DOMAIN tasks :
              content_length \in Offsets(i) => i = Final

\* C6: segment i starts at i * chunkSize; a non-final segment ends at
\* start + chunkSize - 1 and the final one at the size; 3000 bytes in 3
\* segments give (0,999), (1000,1999), (2000,3000).
C6_RangeFormula ==
    tasks # <<>> =>
        /\ \A i \in DOMAIN tasks :
              LET cs == content_length \div NUM_OF_BLOCKS IN
              /\ tasks[i].start = (i - 1) * cs
              /\ i # Final => tasks[i].end = tasks[i].start + cs - 1
              /\ i = Final => tasks[i].end = content_length
        /\ (content_length = ScenarioSize /\ NUM_OF_BLOCKS = 3) =>
              [i \in DOMAIN tasks |-> <<tasks[i].start, tasks[i].end>>]
                 = << <<0, 999>>, <<1000, 1999>>, <<2000, 3000>> >>

\* C7: every dispatched range has 0 <= start <= end < size, the final
\* segment ending at size - 1; a successful session over 3000 bytes in 3
\* segments leaves temp_0_999, temp_1000_1999 and temp_2000_2999.
C7_RangesWithinSize ==
    tasks # <<>> =>
        /\ \A i \in DOMAIN tasks :
              /\ 0 <= tasks[i].start
              /\ tasks[i].start <= tasks[i].end
              /\ tasks[i].end < content_length
              /\ i = Final => tasks[i].end = content_length - 1
        /\ ( /\ content_length = ScenarioSize
             /\ NUM_OF_BLOCKS = 3
             /\ reported["Transfer"] = "ok"
             /\ \A i \in DOMAIN tasks : ~Failed(i) ) =>
              {FileName(0, 999), FileName(1000, 1999), FileName(2000, 2999)}
                 \subseteq DOMAIN files

\* C8: a HEAD response without a usable Content-Length header fails the
\* session at DiscoverSize: the directory is not created, no fetch is
\* issued and no artifact is written.
C8_NoSizeFailsDiscovery ==
    (head.kind = "response" /\ ~(head.header.present /\ head.header.parses)) =>
        /\ reported["DiscoverSize"] = "fail"
        /\ stages = <<"DiscoverSize">>
        /\ dirExists = dirExisted
        /\ tasks = <<>>
        /\ \A n \in DOMAIN files : n = StaleName /\ files[n] = StaleContent

\* C9: when the HEAD request fails to connect the session ends without
\* creating the directory and without issuing a GET.
C9_ConnectErrorEndsSession ==
    head.kind = "ClientConnectorError" =>
        /\ pc = "returned"
        /\ outcome = "Failed"
        /\ stages = <<"DiscoverSize">>
        /\ dirExists = dirExisted
        /\ tasks = <<>>

C9_Witness ==
    /\ head.kind = "ClientConnectorError"
    /\ ~dirExisted
    /\ ~dirExists
    /\ "Failed to connect to server" \in errors

\* C10: when the HEAD request is answered with an error status the directory
\* is not created and no segment is downloaded.
C10_HeadErrorStatus ==
    (head.kind = "response" /\ status = HTTP_INTERNAL_SERVER_ERROR) =>
        /\ dirExists = dirExisted
        /\ tasks = <<>>

\* C11: when the digest stage is reached and every entry of TEMP_DIR can be
\* read, every entry is hashed, its name and digest are passed to
\* logger.info, and the session ends in Done.
C11_AllEntriesHashed ==
    (pc = "returned" /\ "Digest" \in Entered
        /\ "Failed to hash file: OSError" \notin errors) =>
        /\ outcome = "Done"
        /\ reported["Digest"] = "ok"
        /\ \A n \in DOMAIN files :
              /\ [name |-> n, digest |-> Sha256(files[n])] \in hashed
              /\ <<n, Sha256(files[n])>> \in infos

\* C12: when reading or hashing a file fails, the digest pass stops there:
\* it returns False without raising, the session has ended as failed, and at
\* most the failing entry has been read.
C12_DigestAbortsOnError ==
    (errors \cap HashErrors # {}) =>
        /\ pc = "returned"
        /\ outcome = "Failed"
        /\ reported["Digest"] = "fail"
        /\ Cardinality(errors \cap HashErrors) = 1
        /\ Cardinality(hashed) <= 1
        /\ "Failed to hash file: OSError" \in errors => hashed = {}

C12_Witness ==
    /\ "Failed to hash file: OSError" \in errors
    /\ Cardinality(listing) >= 2
    /\ pc = "returned"

\* C13: for every size the fetches of a session write to pairwise distinct
\* files: no two tasks have the same file name, and every artifact written in
\* the session belongs to exactly one dispatched range.
C13_DistinctArtifacts ==
    /\ \A i, j \in DOMAIN tasks : i # j => Name(i) # Name(j)
    /\ \A n \in DOMAIN files :
          \/ n = StaleName /\ files[n] = StaleContent
          \/ Cardinality({i \in DOMAIN tasks : Name(i) = n}) = 1

\* C14: when download_chunk completes without a transport failure, its file
\* exists and holds exactly the increments of its response in arrival order,
\* whatever the file held before and however the siblings' writes interleave.
C14_ArtifactIsBody ==
    [][\A i \in DOMAIN tasks :
          (tasks[i].st = "stream" /\ tasks'[i].st = "done" /\ ~tasks'[i].failed)
             => /\ Name(i) \in DOMAIN files'
                /\ files'[Name(i)] = Received(i)]_vars

\* C15: a fetch that failed in mid-stream after k increments has resolved
\* without raising, and from then on its artifact is on disk and holds
\* exactly those k increments.
C15_PartialArtifactKept ==
    \A i \in DOMAIN tasks :
        (Failed(i) /\ tasks[i].answered) =>
            /\ Finished(i)
            /\ ~tasks[i].raised
            /\ Name(i) \in DOMAIN files
            /\ files[Name(i)] = Received(i)

\* C16: when the GET of a segment fails to connect, download_chunk returns
\* without raising and creates no file.
C16_ConnectFailureCreatesNoFile ==
    [][\A i \in DOMAIN tasks :
          (tasks[i].st = "get" /\ tasks'[i].st = "done")
             => /\ tasks'[i].failed
                /\ ~tasks'[i].raised
                /\ ~tasks'[i].answered
                /\ files' = files]_vars

C16_Witness ==
    \E i \in DOMAIN tasks :
        /\ Finished(i) /\ Failed(i) /\ ~tasks[i].answered
        /\ Name(i) \notin DOMAIN files
        /\ pc = "returned"

\* C17: when the server answers a segment's GET with an error status, no
\* file for that range exists afterwards.
C17_ErrorStatusCreatesNoFile ==
    status = HTTP_INTERNAL_SERVER_ERROR =>
        \A i \in DOMAIN tasks :
            tasks[i].answered => Name(i) \notin DOMAIN files

\* C18: no exception ever escapes download_repo: every session that has
\* ended has returned normally, as Done or as Failed.
C18_NoExceptionEscapes ==
    /\ outcome # "Raised"
    /\ pc = "returned" => outcome \in {"Done", "Failed"}

\* C19: each planned segment is attempted at most once: there is one task
\* per segment, no task sends a second GET, and a task whose fetch has failed
\* stays finished.
C19_AtMostOneAttempt ==
    /\ tasks # <<>> => Len(tasks) = NUM_OF_BLOCKS
    /\ \A i \in DOMAIN tasks :
          /\ tasks[i].gets <= 1
          /\ tasks[i].st # "get" => tasks[i].gets = 1
          /\ Failed(i) => Finished(i)

C19_Witness ==
    /\ pc = "returned"
    /\ \E i, j \in DOMAIN tasks :
          /\ Failed(i) /\ ~tasks[i].answered /\ tasks[i].gets = 1
          /\ Failed(j) /\ tasks[j].answered /\ tasks[j].gets = 1

\* C20: while the event loop keeps running, every session eventually ends
\* and stays ended: neither the join nor a stage blocks forever.
C20_SessionTerminates == <>[](pc = "returned" /\ outcome # "running")

C20_Witness ==
    /\ pc = "returned"
    /\ outcome = "Failed"
    /\ reported["Transfer"] = "ok"
    /\ \E i, j \in DOMAIN tasks : i # j /\ Failed(i) /\ tasks[j].pos >= 1
====
